---- MODULE Spec2Model ----
(***************************************************************************)
(* State-machine model of the GridOrder rebalancing strategy               *)
(* (hummingbot/strategy/grid_order/grid_order.py).                         *)
(*                                                                         *)
(* Units.  Clock time is counted in whole seconds.  Prices are whole quote  *)
(* units.  Balances are counted in AmountsPerUnit-ths of a unit (quarters, *)
(* which binary floats hold exactly).  Order sizes are counted in          *)
(* hundredths of a base unit, because the code formats every size with     *)
(* "{:.2f}".  Decimal NaN and float nan are both the value NaN.            *)
(***************************************************************************)
EXTENDS Integers, Sequences, FiniteSets, TLC

VARIABLES
    config,                \* constructor arguments, read-only afterwards
    current_timestamp,     \* TimeIterator.current_timestamp
    connector_ready,       \* self._connector_ready
    last_timestamp,        \* self._last_timestamp
    create_timestamp,      \* self._create_timestamp
    cancel_timestamp,      \* self._cancel_timestamp
    filled_buys_balance,   \* self._filled_buys_balance
    filled_sells_balance,  \* self._filled_sells_balance
    last_own_trade_price,  \* self._last_own_trade_price
    tracked,               \* limit orders tracked by self._sb_order_tracker
    in_flight_cancels,     \* self._sb_order_tracker.in_flight_cancels
    hanging_ids,           \* ids the hanging orders tracker reports as hanging
    potential_ids,         \* ids the tracker reports as potential hanging orders
    next_id,               \* number of orders submitted so far
    last,                  \* history: what the last handler did
    fill_ts,               \* history: clock time of the last handled completion
    submit_ts,             \* history: clock time of the last submitting tick
    fill_since_submit,     \* history: a completion was handled since submit_ts
    fn                     \* inputs and result of the last pure-function call

vars == <<config, current_timestamp, connector_ready, last_timestamp,
          create_timestamp, cancel_timestamp, filled_buys_balance,
          filled_sells_balance, last_own_trade_price, tracked,
          in_flight_cancels, hanging_ids, potential_ids, next_id, last,
          fill_ts, submit_ts, fill_since_submit, fn>>

(***************************************************************************)
(* Bounds of the model.                                                    *)
(***************************************************************************)
MaxTime == 4
MaxOrders == 2

\* granularity of balances: the number of model amounts in one unit
AmountsPerUnit == 4

NaN == -1

(***************************************************************************)
(* Inputs the connector can answer a tick with.                            *)
(***************************************************************************)
\* an order book with both sides, and one whose bid side is empty
Books ==
    { [bid |-> 99,  ask |-> 101, mid |-> 100],
      [bid |-> NaN, ask |-> 101, mid |-> NaN] }

\* nothing; 1000 quote; 5 base and 500 quote; 10 base
Balances ==
    { [base |-> 0,  quote |-> 0],
      [base |-> 0,  quote |-> 4000],
      [base |-> 20, quote |-> 2000],
      [base |-> 40, quote |-> 0] }

\* Constructor arguments; the price band is either switched off or set on
\* both sides.
Configs ==
    { c \in [ order_refresh_time : {1, 3},
              filled_order_delay : {2},
              max_order_age : {1},
              should_wait_order_cancel_confirmation : BOOLEAN,
              price_ceiling : {0, 200},
              price_floor : {0, 50},
              base_percentage : {50},
              rebalance_percentage : {1} ] :
        (c.price_ceiling = 0) = (c.price_floor = 0) }

\* faulty variant of buy_levels: two levels, as if taken from order_levels
buy_levels_two == 1 + 1

buy_levels == 1

sell_levels == 1

(***************************************************************************)
(* Arithmetic of Python floats and Decimals, as far as the strategy uses   *)
(* it: nan propagates through * and +, and every comparison of a float nan *)
(* is false.                                                               *)
(***************************************************************************)
IsNaN(x) == x = NaN

FloatMul(a, b) == IF IsNaN(a) \/ IsNaN(b) THEN NaN ELSE a * b

FloatAdd(a, b) == IF IsNaN(a) \/ IsNaN(b) THEN NaN ELSE a + b

\* faulty variant of Format2f: truncates instead of rounding
Format2f_truncating(num, den) == num \div den

\* faulty variant of Format2f: rounds up instead of to the nearest hundredth
Format2f_ceiling(num, den) == (num + den - 1) \div den

\* "{:.2f}".format(num / den), in hundredths when num / den is already scaled
\* by 100: the nearest integer, an exact tie going to the even neighbour.
Format2f(num, den) ==
    LET q == num \div den
        r == num % den
    IN  IF 2 * r < den THEN q
        ELSE IF 2 * r > den THEN q + 1
        ELSE IF q % 2 = 0 THEN q ELSE q + 1

PriceSize(price, size) == [price |-> price, size |-> size]

NoProposal == [null |-> TRUE, buys |-> <<>>, sells |-> <<>>]

Proposal(buys, sells) == [null |-> FALSE, buys |-> buys, sells |-> sells]

\* get_price with price_type "mid_price" and no price delegate (start.py
\* passes neither): the mid price, asked for again when it is NaN.
get_price(book) == IF IsNaN(book.mid) THEN book.mid ELSE book.mid

(***************************************************************************)
(* create_base_proposal.  The result carries `raised`: the float division  *)
(* by total_usd = 0.0 (or by a best bid of 0.0) raises ZeroDivisionError.  *)
(* base_percentage is compared by cross-multiplication with total_usd > 0. *)
(***************************************************************************)
\* faulty variant of base_deficient: the lower edge of the band counts as deficient
base_deficient_inclusive(base_balance, total_usd, base_percentage, rebalance_percentage) ==
    /\ ~IsNaN(total_usd)
    /\ 100 * base_balance <= (base_percentage - rebalance_percentage) * total_usd

\* base_percentage < self._base_percentage - self._rebalance_percentage
base_deficient(base_balance, total_usd, base_percentage, rebalance_percentage) ==
    /\ ~IsNaN(total_usd)
    /\ 100 * base_balance < (base_percentage - rebalance_percentage) * total_usd

\* base_percentage > self._base_percentage + self._rebalance_percentage
base_excess(base_balance, total_usd, base_percentage, rebalance_percentage) ==
    /\ ~IsNaN(total_usd)
    /\ 100 * base_balance > (base_percentage + rebalance_percentage) * total_usd

create_base_proposal(base_balance, quote_balance, buy_reference_price, sell_reference_price, base_percentage, rebalance_percentage) ==
    LET total_usd == FloatAdd(base_balance, quote_balance)
        below == base_deficient(base_balance, total_usd, base_percentage,
                                rebalance_percentage)
        above == base_excess(base_balance, total_usd, base_percentage,
                             rebalance_percentage)
        buy_size == Format2f(quote_balance * rebalance_percentage, buy_reference_price * AmountsPerUnit)
        sell_size == Format2f(base_balance * rebalance_percentage, AmountsPerUnit)
    IN  IF total_usd = 0
        THEN [raised |-> TRUE, proposal |-> NoProposal]
        ELSE IF ~IsNaN(buy_reference_price) /\ below
        THEN IF buy_reference_price = 0
             THEN [raised |-> TRUE, proposal |-> NoProposal]
             ELSE [raised |-> FALSE,
                   proposal |-> Proposal(
                       IF buy_size > 0
                       THEN [level \in 1..buy_levels |->
                                PriceSize(buy_reference_price, buy_size)]
                       ELSE <<>>,
                       <<>>)]
        ELSE IF ~IsNaN(sell_reference_price) /\ above
        THEN [raised |-> FALSE,
              proposal |-> Proposal(
                  <<>>,
                  IF sell_size > 0
                  THEN [level \in 1..sell_levels |->
                           PriceSize(sell_reference_price, sell_size)]
                  ELSE <<>>)]
        ELSE [raised |-> FALSE, proposal |-> Proposal(<<>>, <<>>)]

(***************************************************************************)
(* apply_price_band (through apply_order_levels_modifiers).  Ordering a    *)
(* Decimal NaN against a float raises decimal.InvalidOperation; `and`      *)
(* skips the comparison when the bound is not positive.                    *)
(***************************************************************************)
\* faulty variant of apply_price_band: a breach drops only the first level of
\* each side
apply_price_band_drop_first(proposal, price, price_ceiling, price_floor) ==
    LET raises == (price_ceiling > 0 \/ price_floor > 0) /\ IsNaN(price)
        hit == \/ price_ceiling > 0 /\ ~IsNaN(price) /\ price >= price_ceiling
               \/ price_floor > 0 /\ ~IsNaN(price) /\ price <= price_floor
        rest(legs) == IF legs = <<>> THEN <<>> ELSE Tail(legs)
    IN  IF raises
        THEN [raised |-> TRUE, proposal |-> NoProposal]
        ELSE IF hit
        THEN [raised |-> FALSE,
              proposal |-> Proposal(rest(proposal.buys), rest(proposal.sells))]
        ELSE [raised |-> FALSE, proposal |-> proposal]

apply_price_band(proposal, price, price_ceiling, price_floor) ==
    LET ceiling_raises == price_ceiling > 0 /\ IsNaN(price)
        ceiling_hit == price_ceiling > 0 /\ ~IsNaN(price) /\ price >= price_ceiling
        floor_raises == price_floor > 0 /\ IsNaN(price)
        floor_hit == price_floor > 0 /\ ~IsNaN(price) /\ price <= price_floor
    IN  IF ceiling_raises \/ floor_raises
        THEN [raised |-> TRUE, proposal |-> NoProposal]
        ELSE IF ceiling_hit \/ floor_hit
        THEN [raised |-> FALSE, proposal |-> Proposal(<<>>, <<>>)]
        ELSE [raised |-> FALSE, proposal |-> proposal]

apply_order_levels_modifiers(proposal, price, price_ceiling, price_floor) ==
    apply_price_band(proposal, price, price_ceiling, price_floor)

(***************************************************************************)
(* The order ledger and the hanging orders tracker, at their interface.    *)
(***************************************************************************)
\* market_pair_to_active_orders: the tracked orders with no cancel in flight
active_orders(orders, in_flight) == {o \in orders : o.id \notin in_flight}

is_order_id_in_hanging_orders(id, hanging) == id \in hanging

is_potential_hanging_order(o, potential) == o.id \in potential

\* order_age: seconds since the creation time the client order id encodes
order_age(o, now) == now - o.created

active_non_hanging_orders(orders, in_flight, hanging) ==
    {o \in active_orders(orders, in_flight) :
        ~is_order_id_in_hanging_orders(o.id, hanging)}

\* cancel_active_orders_on_max_age_limit: the ids it calls cancel_order for
\* faulty variant of cancel_active_orders_on_max_age_limit: the age is
\* compared the wrong way round, so an old order is never cancelled
cancel_active_orders_on_max_age_limit_young(orders, in_flight, hanging, now, max_order_age) ==
    LET active == active_non_hanging_orders(orders, in_flight, hanging)
    IN  IF active # {} /\ \E o \in active : order_age(o, now) < 0 - max_order_age
        THEN {o.id : o \in active}
        ELSE {}

cancel_active_orders_on_max_age_limit(orders, in_flight, hanging, now, max_order_age) ==
    LET active == active_non_hanging_orders(orders, in_flight, hanging)
    IN  IF active # {} /\ \E o \in active : order_age(o, now) > max_order_age
        THEN {o.id : o \in active}
        ELSE {}

\* faulty variant of to_create_orders: create_timestamp <= current_timestamp
to_create_orders_non_strict(proposal, create, now, wait, orders, in_flight, hanging, potential) ==
    /\ create <= now
    /\ (~wait \/ Cardinality(in_flight) = 0)
    /\ ~proposal.null
    /\ Cardinality({o \in active_non_hanging_orders(orders, in_flight, hanging) :
                        ~is_potential_hanging_order(o, potential)}) = 0

\* faulty variant of to_create_orders: in-flight cancels are not waited for
to_create_orders_no_wait(proposal, create, now, wait, orders, in_flight, hanging, potential) ==
    /\ create < now
    /\ ~proposal.null
    /\ Cardinality({o \in active_non_hanging_orders(orders, in_flight, hanging) :
                        ~is_potential_hanging_order(o, potential)}) = 0

to_create_orders(proposal, create, now, wait, orders, in_flight, hanging, potential) ==
    LET non_hanging_orders_non_cancelled ==
            {o \in active_non_hanging_orders(orders, in_flight, hanging) :
                ~is_potential_hanging_order(o, potential)}
    IN  /\ create < now
        /\ (~wait \/ Cardinality(in_flight) = 0)
        /\ ~proposal.null
        /\ Cardinality(non_hanging_orders_non_cancelled) = 0

\* faulty variant of set_timers: the create deadline is not pushed
set_timers_no_rearm(create, cancel, now, order_refresh_time) ==
    [create |-> create,
     cancel |-> IF cancel <= now THEN now + order_refresh_time ELSE cancel]

\* faulty variant of set_timers: a cancel deadline that was set once is kept,
\* however long ago it passed
set_timers_keep_cancel(create, cancel, now, order_refresh_time) ==
    LET next_cycle == now + order_refresh_time
        new_create == IF create <= now THEN next_cycle ELSE create
    IN  [create |-> new_create,
         cancel |-> IF cancel = 0 \/ cancel > new_create THEN new_create ELSE cancel]

\* faulty variant of set_timers: the create deadline is reset without looking
\* at its old value
set_timers_always_rearm(create, cancel, now, order_refresh_time) ==
    LET next_cycle == now + order_refresh_time
    IN  [create |-> next_cycle,
         cancel |-> IF cancel <= now THEN next_cycle ELSE cancel]

set_timers(create, cancel, now, order_refresh_time) ==
    LET next_cycle == now + order_refresh_time
        new_create == IF create <= now THEN next_cycle ELSE create
        min_cycle == IF new_create < next_cycle THEN new_create ELSE next_cycle
    IN  [create |-> new_create,
         cancel |-> IF cancel <= now THEN min_cycle ELSE cancel]

\* faulty variant of set_timers_if_created: the timers are set whether or not
\* an order was created
set_timers_unconditionally(orders_created, create, cancel, now, order_refresh_time) ==
    set_timers(create, cancel, now, order_refresh_time)

\* the end of execute_orders_proposal: if orders_created: self.set_timers()
set_timers_if_created(orders_created, create, cancel, now, order_refresh_time) ==
    IF orders_created THEN set_timers(create, cancel, now, order_refresh_time)
    ELSE [create |-> create, cancel |-> cancel]

\* execute_orders_proposal: the orders buy_with_specific_market and
\* sell_with_specific_market start tracking, buys first; ids count up from first_id
execute_orders_proposal(proposal, first_id, now) ==
    {[id |-> first_id + i, is_buy |-> TRUE, price |-> proposal.buys[i].price,
      quantity |-> proposal.buys[i].size, created |-> now] :
        i \in 1..Len(proposal.buys)}
    \cup
    {[id |-> first_id + Len(proposal.buys) + i, is_buy |-> FALSE,
      price |-> proposal.sells[i].price, quantity |-> proposal.sells[i].size,
      created |-> now] : i \in 1..Len(proposal.sells)}

(***************************************************************************)
(* History record of the last handler.                                     *)
(***************************************************************************)
NoEvent ==
    [kind |-> "init", ready |-> FALSE, raised |-> FALSE, proposal |-> NoProposal,
     market_ready |-> FALSE, evaluated |-> FALSE, gate |-> FALSE,
     submitted |-> {}, cancelled |-> {}, order_id |-> 0, known |-> FALSE]

NoCall == [op |-> "none"]

Init ==
    /\ config \in Configs
    /\ current_timestamp = 0
    /\ connector_ready = FALSE
    /\ last_timestamp = 0
    /\ create_timestamp = 0
    /\ cancel_timestamp = 0
    /\ filled_buys_balance = 0
    /\ filled_sells_balance = 0
    /\ last_own_trade_price = NaN
    /\ tracked = {}
    /\ in_flight_cancels = {}
    /\ hanging_ids = {}
    /\ potential_ids = {}
    /\ next_id = 0
    /\ last = NoEvent
    /\ fill_ts = NaN
    /\ submit_ts = NaN
    /\ fill_since_submit = FALSE
    /\ fn = NoCall

(***************************************************************************)
(* The proposal of a tick: the balances are valued at get_price(), the     *)
(* base proposal is created and the price band applied to it.  `raised`    *)
(* tells that one of the two steps raised.                                 *)
(***************************************************************************)
build_proposal(balance, book, base_percentage, rebalance_percentage, price_ceiling, price_floor) ==
    LET price == get_price(book)
        base_balance == FloatMul(balance.base, price)
        base == create_base_proposal(base_balance, balance.quote, book.bid, book.ask,
                                     base_percentage, rebalance_percentage)
        banded == apply_order_levels_modifiers(base.proposal, price,
                                               price_ceiling, price_floor)
    IN  IF base.raised THEN base ELSE banded

(***************************************************************************)
(* tick(timestamp).  market_ready, balance and book are what the connector *)
(* answers during this tick.  An exception raised while the proposal is    *)
(* built leaves the try block at once: only the finally clause runs.       *)
(***************************************************************************)
\* faulty variant of connector_is_ready: the readiness check is skipped
connector_is_ready_unchecked(was_ready, market_ready) == TRUE

\* if not self._connector_ready: self._connector_ready = market.ready
connector_is_ready(was_ready, market_ready) == was_ready \/ market_ready

\* faulty variant of in_flight_at_gate: the gate is evaluated before the
\* max-age cancellation
in_flight_before_monitor(in_flight, cancels) == in_flight

\* cancel_active_orders_on_max_age_limit() runs before to_create_orders():
\* the gate reads the in-flight cancels with this tick's requests among them
in_flight_at_gate(in_flight, cancels) == in_flight \cup cancels

Tick(timestamp, market_ready, balance, book) ==
    LET ready == connector_is_ready(connector_ready, market_ready)
        build == create_timestamp <= timestamp
        built == build_proposal(balance, book, config.base_percentage,
                                config.rebalance_percentage, config.price_ceiling,
                                config.price_floor)
        raised == build /\ built.raised
        proposal == IF build /\ ~raised THEN built.proposal ELSE NoProposal
        cancels == cancel_active_orders_on_max_age_limit(
                       tracked, in_flight_cancels, hanging_ids, timestamp,
                       config.max_order_age)
        in_flight == in_flight_cancels \cup cancels
        gate == to_create_orders(proposal, create_timestamp, timestamp,
                                 config.should_wait_order_cancel_confirmation,
                                 tracked, in_flight_at_gate(in_flight_cancels, cancels),
                                 hanging_ids, potential_ids)
        created == IF gate THEN execute_orders_proposal(proposal, next_id, timestamp)
                   ELSE {}
        timers == IF gate
                  THEN set_timers_if_created(created # {}, create_timestamp,
                                             cancel_timestamp, timestamp,
                                             config.order_refresh_time)
                  ELSE [create |-> create_timestamp, cancel |-> cancel_timestamp]
    IN  /\ timestamp <= MaxTime                           \* the clock stops at MaxTime
        /\ next_id + Cardinality(created) <= MaxOrders    \* and the ledger's ids at MaxOrders
        /\ current_timestamp' = timestamp
        /\ last_timestamp' = timestamp
        /\ connector_ready' = ready
        /\ IF ready /\ ~raised
           THEN /\ in_flight_cancels' = in_flight
                /\ tracked' = tracked \cup created
                /\ next_id' = next_id + Cardinality(created)
                /\ create_timestamp' = timers.create
                /\ cancel_timestamp' = timers.cancel
                /\ submit_ts' = IF created # {} THEN timestamp ELSE submit_ts
                /\ fill_since_submit' = IF created # {} THEN FALSE
                                        ELSE fill_since_submit
                /\ last' = [kind |-> "tick", ready |-> TRUE, raised |-> FALSE,
                            proposal |-> proposal, evaluated |-> TRUE,
                            gate |-> gate, market_ready |-> market_ready,
                            submitted |-> {o.id : o \in created},
                            cancelled |-> cancels, order_id |-> 0, known |-> FALSE]
           ELSE /\ UNCHANGED <<in_flight_cancels, tracked, next_id, create_timestamp,
                               cancel_timestamp, submit_ts, fill_since_submit>>
                /\ last' = [NoEvent EXCEPT !.kind = "tick", !.ready = ready,
                                           !.raised = ready /\ raised,
                                           !.market_ready = market_ready]
        /\ UNCHANGED <<config, filled_buys_balance, filled_sells_balance,
                       last_own_trade_price, hanging_ids, potential_ids, fill_ts, fn>>

(***************************************************************************)
(* did_complete_buy_order / did_complete_sell_order.                       *)
(***************************************************************************)
\* self._sb_order_tracker.get_limit_order: the tracked order, if any
get_limit_order(orders, order_id) == {o \in orders : o.id = order_id}

\* faulty variant of delay_order_creation: the delay is not added
delay_order_creation_no_delay(cancel, now, filled_order_delay) ==
    [create |-> now, cancel |-> IF cancel < now THEN cancel ELSE now]

\* faulty variant of delay_order_creation: max instead of min
delay_order_creation_max(cancel, now, filled_order_delay) ==
    [create |-> now + filled_order_delay,
     cancel |-> IF cancel > now + filled_order_delay THEN cancel
                ELSE now + filled_order_delay]

\* faulty variant of delay_order_creation: the cancel deadline is not clamped
delay_order_creation_no_clamp(cancel, now, filled_order_delay) ==
    [create |-> now + filled_order_delay, cancel |-> cancel]

\* the two timer assignments of a completion handler
delay_order_creation(cancel, now, filled_order_delay) ==
    LET new_create == now + filled_order_delay
    IN  [create |-> new_create,
         cancel |-> IF cancel < new_create THEN cancel ELSE new_create]

\* the ledger stops tracking an order once its completion has been handled
stop_tracking(order_id) ==
    /\ tracked' = {o \in tracked : o.id # order_id}
    /\ hanging_ids' = hanging_ids \ {order_id}
    /\ potential_ids' = potential_ids \ {order_id}

\* faulty variant of count_completion: the other side's counter is incremented
count_completion_swapped(filled_buys, filled_sells, is_buy) ==
    [buys |-> filled_buys + (IF is_buy THEN 0 ELSE 1),
     sells |-> filled_sells + (IF is_buy THEN 1 ELSE 0)]

\* self._filled_buys_balance += 1 / self._filled_sells_balance += 1
count_completion(filled_buys, filled_sells, is_buy) ==
    [buys |-> filled_buys + (IF is_buy THEN 1 ELSE 0),
     sells |-> filled_sells + (IF is_buy THEN 0 ELSE 1)]

\* faulty variant of did_complete_order: no early return for an order that is
\* not tracked
did_complete_order_unchecked(order_id, is_buy) ==
    LET found == get_limit_order(tracked, order_id)
        timers == delay_order_creation(cancel_timestamp, current_timestamp,
                                       config.filled_order_delay)
        counts == count_completion(filled_buys_balance, filled_sells_balance, is_buy)
    IN  /\ \A o \in found : o.is_buy = is_buy
        /\ last' = [NoEvent EXCEPT !.kind = IF is_buy THEN "complete_buy"
                                             ELSE "complete_sell",
                                   !.order_id = order_id, !.known = found # {}]
        /\ create_timestamp' = timers.create
        /\ cancel_timestamp' = timers.cancel
        /\ filled_buys_balance' = counts.buys
        /\ filled_sells_balance' = counts.sells
        /\ last_own_trade_price' = IF found = {} THEN last_own_trade_price
                                   ELSE (CHOOSE o \in found : TRUE).price
        /\ stop_tracking(order_id)
        /\ fill_ts' = current_timestamp
        /\ fill_since_submit' = TRUE
        /\ UNCHANGED <<config, current_timestamp, connector_ready, last_timestamp,
                       in_flight_cancels, next_id, submit_ts, fn>>

did_complete_order(order_id, is_buy) ==
    LET found == get_limit_order(tracked, order_id)
        timers == delay_order_creation(cancel_timestamp, current_timestamp,
                                       config.filled_order_delay)
        counts == count_completion(filled_buys_balance, filled_sells_balance, is_buy)
    IN  /\ \A o \in found : o.is_buy = is_buy
        /\ last' = [NoEvent EXCEPT !.kind = IF is_buy THEN "complete_buy"
                                             ELSE "complete_sell",
                                   !.order_id = order_id, !.known = found # {}]
        /\ IF found = {}
           THEN UNCHANGED <<create_timestamp, cancel_timestamp, filled_buys_balance,
                            filled_sells_balance, last_own_trade_price, tracked,
                            hanging_ids, potential_ids, fill_ts, fill_since_submit>>
           ELSE /\ create_timestamp' = timers.create
                /\ cancel_timestamp' = timers.cancel
                /\ filled_buys_balance' = counts.buys
                /\ filled_sells_balance' = counts.sells
                /\ last_own_trade_price' = (CHOOSE o \in found : TRUE).price
                /\ stop_tracking(order_id)
                /\ fill_ts' = current_timestamp
                /\ fill_since_submit' = TRUE
        /\ UNCHANGED <<config, current_timestamp, connector_ready, last_timestamp,
                       in_flight_cancels, next_id, submit_ts, fn>>

did_complete_buy_order(order_id) == did_complete_order(order_id, TRUE)

did_complete_sell_order(order_id) == did_complete_order(order_id, FALSE)

\* faulty variant of did_fill_order: a fill of a tracked order starts the
\* cooldown of a completion
did_fill_order_cooling(order_id, is_buy) ==
    LET known == get_limit_order(tracked, order_id) # {}
        timers == delay_order_creation(cancel_timestamp, current_timestamp,
                                       config.filled_order_delay)
    IN  /\ last' = [NoEvent EXCEPT !.kind = "fill", !.known = known]
        /\ create_timestamp' = IF known THEN timers.create ELSE create_timestamp
        /\ cancel_timestamp' = IF known THEN timers.cancel ELSE cancel_timestamp
        /\ UNCHANGED <<config, current_timestamp, connector_ready, last_timestamp,
                       filled_buys_balance, filled_sells_balance,
                       last_own_trade_price, tracked, in_flight_cancels,
                       hanging_ids, potential_ids, next_id, fill_ts, submit_ts,
                       fill_since_submit, fn>>

\* did_fill_order: logging only
did_fill_order(order_id, is_buy) ==
    /\ last' = [NoEvent EXCEPT !.kind = "fill",
                               !.known = get_limit_order(tracked, order_id) # {}]
    /\ UNCHANGED <<config, current_timestamp, connector_ready, last_timestamp,
                   create_timestamp, cancel_timestamp, filled_buys_balance,
                   filled_sells_balance, last_own_trade_price, tracked,
                   in_flight_cancels, hanging_ids, potential_ids, next_id, fill_ts,
                   submit_ts, fill_since_submit, fn>>

(***************************************************************************)
(* The collaborators' own steps between two handlers.                      *)
(***************************************************************************)
\* a cancel request is resolved: the order, if still tracked, is dropped
cancel_resolved(order_id) ==
    /\ order_id \in in_flight_cancels
    /\ in_flight_cancels' = in_flight_cancels \ {order_id}
    /\ stop_tracking(order_id)
    /\ last' = [NoEvent EXCEPT !.kind = "cancelled", !.order_id = order_id]
    /\ UNCHANGED <<config, current_timestamp, connector_ready, last_timestamp,
                   create_timestamp, cancel_timestamp, filled_buys_balance,
                   filled_sells_balance, last_own_trade_price, next_id,
                   fill_ts, submit_ts, fill_since_submit, fn>>

\* the hanging orders tracker reclassifies a tracked order
hanging_update(order_id, as_hanging) ==
    /\ \E o \in tracked : o.id = order_id
    /\ order_id \notin (IF as_hanging THEN hanging_ids ELSE potential_ids)
    /\ hanging_ids' = IF as_hanging THEN hanging_ids \cup {order_id} ELSE hanging_ids
    /\ potential_ids' = IF as_hanging THEN potential_ids
                        ELSE potential_ids \cup {order_id}
    /\ last' = [NoEvent EXCEPT !.kind = "hanging", !.order_id = order_id]
    /\ UNCHANGED <<config, current_timestamp, connector_ready, last_timestamp,
                   create_timestamp, cancel_timestamp, filled_buys_balance,
                   filled_sells_balance, last_own_trade_price, tracked,
                   in_flight_cancels, next_id, fill_ts, submit_ts, fill_since_submit,
                   fn>>

OrderIds == 1..MaxOrders

\* market.ready is read only while self._connector_ready is still false, and
\* balances and prices only once the connector is ready
MarketReadyInputs == IF connector_ready THEN {TRUE} ELSE BOOLEAN

BalanceInputs(market_ready) ==
    IF connector_ready \/ market_ready THEN Balances ELSE {[base |-> 0, quote |-> 0]}

BookInputs(market_ready) ==
    IF connector_ready \/ market_ready THEN Books
    ELSE {[bid |-> NaN, ask |-> NaN, mid |-> NaN]}

Next ==
    \/ \E market_ready \in MarketReadyInputs :
          \E balance \in BalanceInputs(market_ready), book \in BookInputs(market_ready) :
             Tick(current_timestamp + 1, market_ready, balance, book)
    \/ \E order_id \in OrderIds : did_complete_buy_order(order_id)
    \/ \E order_id \in OrderIds : did_complete_sell_order(order_id)
    \/ \E order_id \in OrderIds, is_buy \in BOOLEAN : did_fill_order(order_id, is_buy)
    \/ \E order_id \in OrderIds : cancel_resolved(order_id)
    \/ \E order_id \in OrderIds, as_hanging \in BOOLEAN : hanging_update(order_id, as_hanging)

Spec == Init /\ [][Next]_vars

(***************************************************************************)
(* create_base_proposal on its own: one call on inputs drawn from a grid   *)
(* around the edges of the tolerance band.                                 *)
(***************************************************************************)
\* 0, 0.25, 0.5, 0.75, 12.5, 40, 48, 49, 50, 51, 52 and 1000 units
Amounts == {0, 1, 2, 3, 50, 160, 192, 196, 200, 204, 208, 4000}

BidPrices == {NaN, 4, 99, 100}

AskPrices == {NaN, 101}

TargetPercentages == {50}

TolerancePercentages == {1, 10}

\* A size that lies exactly halfway between two hundredths, at a value no
\* binary float holds: which way Python rounds it is decided by the float
\* error of the two divisions.  Such inputs are left off the grid.
InexactTie(num, den) ==
    /\ den > 0
    /\ 2 * (num % den) = den
    /\ (2 * (num \div den) + 1) % 25 # 0

call_create_base_proposal(base_balance, quote_balance, bid, ask, base_percentage, rebalance_percentage) ==
    LET result == create_base_proposal(base_balance, quote_balance, bid, ask,
                                       base_percentage, rebalance_percentage)
    IN  /\ fn.op = "none"
        /\ ~InexactTie(quote_balance * rebalance_percentage, bid * AmountsPerUnit)
        /\ ~InexactTie(base_balance * rebalance_percentage, AmountsPerUnit)
        /\ fn' = [op |-> "create_base_proposal", base_balance |-> base_balance,
                  quote_balance |-> quote_balance, bid |-> bid, ask |-> ask,
                  base_percentage |-> base_percentage,
                  rebalance_percentage |-> rebalance_percentage,
                  raised |-> result.raised, proposal |-> result.proposal]
        /\ UNCHANGED <<config, current_timestamp, connector_ready, last_timestamp,
                       create_timestamp, cancel_timestamp, filled_buys_balance,
                       filled_sells_balance, last_own_trade_price, tracked,
                       in_flight_cancels, hanging_ids, potential_ids, next_id, last,
                       fill_ts, submit_ts, fill_since_submit>>

NextProposal ==
    \E base_balance \in Amounts \cup {NaN}, quote_balance \in Amounts,
       bid \in BidPrices, ask \in AskPrices,
       base_percentage \in TargetPercentages,
       rebalance_percentage \in TolerancePercentages :
        call_create_base_proposal(base_balance, quote_balance, bid, ask,
                                  base_percentage, rebalance_percentage)

SpecProposal == Init /\ [][NextProposal]_vars

(***************************************************************************)
(* apply_price_band on its own: one call, and a second call on the result  *)
(* of the first, on proposals of every shape and reference prices on both  *)
(* sides of each bound.                                                    *)
(***************************************************************************)
BandProposals ==
    { Proposal(<<>>, <<>>),
      Proposal(<<PriceSize(99, 10)>>, <<>>),
      Proposal(<<>>, <<PriceSize(101, 10)>>),
      Proposal(<<PriceSize(99, 10)>>, <<PriceSize(101, 10)>>),
      Proposal(<<PriceSize(99, 10), PriceSize(98, 10)>>, <<>>) }

BandPrices == {NaN, 49, 50, 51, 100, 199, 200, 201}

PriceCeilings == {0, 200}

PriceFloors == {0, 50}

call_apply_price_band(proposal, price, price_ceiling, price_floor) ==
    LET once == apply_price_band(proposal, price, price_ceiling, price_floor)
        twice == IF once.raised THEN once
                 ELSE apply_price_band(once.proposal, price, price_ceiling, price_floor)
    IN  /\ fn.op = "none"
        /\ fn' = [op |-> "apply_price_band", proposal |-> proposal, price |-> price,
                  price_ceiling |-> price_ceiling, price_floor |-> price_floor,
                  raised |-> once.raised, result |-> once.proposal,
                  raised_again |-> twice.raised, result_again |-> twice.proposal]
        /\ UNCHANGED <<config, current_timestamp, connector_ready, last_timestamp,
                       create_timestamp, cancel_timestamp, filled_buys_balance,
                       filled_sells_balance, last_own_trade_price, tracked,
                       in_flight_cancels, hanging_ids, potential_ids, next_id, last,
                       fill_ts, submit_ts, fill_since_submit>>

NextPriceBand ==
    \E proposal \in BandProposals, price \in BandPrices,
       price_ceiling \in PriceCeilings, price_floor \in PriceFloors :
        call_apply_price_band(proposal, price, price_ceiling, price_floor)

SpecPriceBand == Init /\ [][NextPriceBand]_vars

(***************************************************************************)
(* The proposal of a tick on its own: one call, on every balance and on    *)
(* order books with either side, both sides or no side empty.              *)
(***************************************************************************)
BuildBooks ==
    { [bid |-> 99,  ask |-> 101, mid |-> 100],
      [bid |-> NaN, ask |-> 101, mid |-> NaN],
      [bid |-> 99,  ask |-> NaN, mid |-> NaN],
      [bid |-> NaN, ask |-> NaN, mid |-> NaN] }

call_build_proposal(balance, book, base_percentage, rebalance_percentage, price_ceiling, price_floor) ==
    LET result == build_proposal(balance, book, base_percentage, rebalance_percentage,
                                 price_ceiling, price_floor)
    IN  /\ fn.op = "none"
        /\ fn' = [op |-> "build_proposal", balance |-> balance, book |-> book,
                  base_percentage |-> base_percentage,
                  rebalance_percentage |-> rebalance_percentage,
                  price_ceiling |-> price_ceiling, price_floor |-> price_floor,
                  raised |-> result.raised, proposal |-> result.proposal]
        /\ UNCHANGED <<config, current_timestamp, connector_ready, last_timestamp,
                       create_timestamp, cancel_timestamp, filled_buys_balance,
                       filled_sells_balance, last_own_trade_price, tracked,
                       in_flight_cancels, hanging_ids, potential_ids, next_id, last,
                       fill_ts, submit_ts, fill_since_submit>>

NextBuild ==
    \E balance \in Balances, book \in BuildBooks,
       base_percentage \in TargetPercentages,
       rebalance_percentage \in TolerancePercentages,
       price_ceiling \in PriceCeilings, price_floor \in PriceFloors :
        call_build_proposal(balance, book, base_percentage, rebalance_percentage,
                            price_ceiling, price_floor)

SpecBuild == Init /\ [][NextBuild]_vars

(***************************************************************************)
(* set_timers on its own: one call, with both deadlines before, at and     *)
(* after the clock time.                                                   *)
(***************************************************************************)
TimerValues == 0..(MaxTime + 1)

OrderRefreshTimes == {1, 3}

call_set_timers(create, cancel, now, order_refresh_time) ==
    LET timers == set_timers(create, cancel, now, order_refresh_time)
    IN  /\ fn.op = "none"
        /\ fn' = [op |-> "set_timers", create |-> create, cancel |-> cancel,
                  now |-> now, order_refresh_time |-> order_refresh_time,
                  new_create |-> timers.create, new_cancel |-> timers.cancel]
        /\ UNCHANGED <<config, current_timestamp, connector_ready, last_timestamp,
                       create_timestamp, cancel_timestamp, filled_buys_balance,
                       filled_sells_balance, last_own_trade_price, tracked,
                       in_flight_cancels, hanging_ids, potential_ids, next_id, last,
                       fill_ts, submit_ts, fill_since_submit>>

NextTimers ==
    \E create \in TimerValues, cancel \in TimerValues, now \in TimerValues,
       order_refresh_time \in OrderRefreshTimes :
        call_set_timers(create, cancel, now, order_refresh_time)

SpecTimers == Init /\ [][NextTimers]_vars

(***************************************************************************)
(* The strategy under the conditions of progress: the connector is ready,  *)
(* the wallet is out of the tolerance band, the order book has both sides  *)
(* and its mid price lies inside the price band, no order is               *)
(* filled, and a cancel request is confirmed before the next tick.  Ticks  *)
(* keep arriving and confirmations keep being delivered: both are weakly   *)
(* fair.                                                                   *)
(***************************************************************************)
ProgressBook == CHOOSE b \in Books : ~IsNaN(b.bid) /\ ~IsNaN(b.ask)

\* the wallets of Balances and two mixed ones (1 base and 500 quote, 5 base
\* and 100 quote) that are out of the tolerance band at the mid price
ProgressBalances ==
    {b \in Balances \cup {[base |-> 4, quote |-> 2000], [base |-> 20, quote |-> 400]} :
        LET base_balance == FloatMul(b.base, get_price(ProgressBook))
            total_usd == FloatAdd(base_balance, b.quote)
        IN  \/ base_deficient(base_balance, total_usd, config.base_percentage,
                              config.rebalance_percentage)
            \/ base_excess(base_balance, total_usd, config.base_percentage,
                           config.rebalance_percentage)}

TickProgress ==
    /\ in_flight_cancels = {}
    /\ \E balance \in ProgressBalances :
          Tick(current_timestamp + 1, TRUE, balance, ProgressBook)

CancelConfirmed == \E order_id \in OrderIds : cancel_resolved(order_id)

NextProgress == TickProgress \/ CancelConfirmed

SpecProgress ==
    Init /\ [][NextProgress]_vars /\ WF_vars(TickProgress) /\ WF_vars(CancelConfirmed)

(***************************************************************************)
(* Properties.                                                             *)
(***************************************************************************)
IsTickStep == current_timestamp' # current_timestamp

SubmittedInStep == {o.id : o \in tracked'} \ {o.id : o \in tracked}

\* C1: the gate evaluated by a tick at time t is true exactly when
\* create_timestamp < t, no cancel is waited for (the flag is off or no cancel
\* is in flight), the proposal is not None, and no active order is neither
\* hanging nor potentially hanging; and a tick submits orders only when these
\* four conditions hold.
C1_SubmissionGate ==
    [][IsTickStep =>
        LET four == /\ create_timestamp < current_timestamp'
                    /\ \/ ~config.should_wait_order_cancel_confirmation
                       \/ in_flight_cancels' = {}
                    /\ ~last'.proposal.null
                    /\ ~\E o \in tracked : /\ o.id \notin in_flight_cancels'
                                           /\ o.id \notin hanging_ids
                                           /\ o.id \notin potential_ids
        IN  /\ last'.evaluated => (last'.gate <=> four)
            /\ SubmittedInStep # {} => four]_vars

C1_Witness ==
    /\ last.kind = "tick"
    /\ last.gate
    /\ last.submitted # {}
    /\ \E o \in tracked : o.id \in hanging_ids \cup potential_ids

\* C2: once a completion has been handled at clock time t, a tick submits an
\* order only at a time later than t + filled_order_delay.
C2_FillCooldown ==
    (last.kind = "tick" /\ last.submitted # {} /\ ~IsNaN(fill_ts))
        => current_timestamp > fill_ts + config.filled_order_delay

C2_Witness ==
    /\ last.kind = "tick"
    /\ last.submitted # {}
    /\ ~IsNaN(fill_ts)
    /\ current_timestamp = fill_ts + config.filled_order_delay + 1

\* C3: a completion of a tracked order handled at clock time t sets
\* create_timestamp to exactly t + filled_order_delay, whatever it was, and
\* cancel_timestamp to the smaller of its old value and the new
\* create_timestamp.
C3_CompletionTimers ==
    [][(last'.kind \in {"complete_buy", "complete_sell"} /\ last'.known) =>
        /\ create_timestamp' = current_timestamp + config.filled_order_delay
        /\ cancel_timestamp' = IF cancel_timestamp < create_timestamp'
                               THEN cancel_timestamp ELSE create_timestamp'
        /\ cancel_timestamp' <= create_timestamp']_vars

\* the completion pulled create_timestamp back from a later refresh deadline
C3_Witness ==
    /\ last.kind \in {"complete_buy", "complete_sell"}
    /\ last.known
    /\ fill_ts = submit_ts
    /\ create_timestamp < submit_ts + config.order_refresh_time
    /\ cancel_timestamp = create_timestamp

\* C4: with no completion handled since the last submitting tick at time t,
\* a tick submits again only at a time later than t + order_refresh_time.
C4_RefreshPeriod ==
    [][(IsTickStep /\ SubmittedInStep # {} /\ ~IsNaN(submit_ts) /\ ~fill_since_submit)
        => current_timestamp' > submit_ts + config.order_refresh_time]_vars

C4_Witness ==
    /\ last.kind = "tick"
    /\ last.submitted # {}
    /\ next_id = 2
    /\ IsNaN(fill_ts)
    /\ submit_ts = 1 + config.order_refresh_time + 1

\* C5: the cancel deadline is never later than the create deadline.
C5_CancelNotAfterCreate == cancel_timestamp <= create_timestamp

C5_Witness ==
    /\ 0 < cancel_timestamp
    /\ cancel_timestamp < create_timestamp
    /\ ~IsNaN(fill_ts)

\* C6: with should_wait_order_cancel_confirmation set, a tick that ends with a
\* cancel request in flight has submitted no order.
C6_WaitForCancels ==
    (/\ last.kind = "tick"
     /\ config.should_wait_order_cancel_confirmation
     /\ in_flight_cancels # {})
        => last.submitted = {}

\* only the in-flight cancel held the submission back
C6_Witness ==
    /\ last.kind = "tick"
    /\ config.should_wait_order_cancel_confirmation
    /\ in_flight_cancels # {}
    /\ last.evaluated
    /\ ~last.gate
    /\ Len(last.proposal.buys) + Len(last.proposal.sells) > 0
    /\ create_timestamp < current_timestamp
    /\ \A o \in tracked : o.id \in in_flight_cancels

\* C7: on every tick with the connector ready, cancel requests go out for
\* exactly these orders: all active non-hanging orders if one of them is older
\* than max_order_age, none otherwise.
C7_MaxAgeCancels ==
    [][(IsTickStep /\ last'.ready) =>
        LET active == {o \in tracked : /\ o.id \notin in_flight_cancels
                                       /\ o.id \notin hanging_ids}
            stale == {o \in active :
                         current_timestamp' - o.created > config.max_order_age}
        IN  in_flight_cancels' \ in_flight_cancels =
                IF stale # {} THEN {o.id : o \in active} ELSE {}]_vars

\* C8: a tick on which the connector is not ready builds no proposal, cancels
\* and submits nothing, leaves the scheduler state alone and leaves
\* self._connector_ready false, so the next tick asks again.
C8_NotReadyNoOp ==
    [][(IsTickStep /\ ~connector_ready /\ ~last'.market_ready) =>
        /\ UNCHANGED <<create_timestamp, cancel_timestamp, last_own_trade_price,
                       filled_buys_balance, filled_sells_balance, tracked,
                       in_flight_cancels>>
        /\ last'.proposal.null
        /\ ~last'.evaluated
        /\ ~connector_ready']_vars

\* a not-ready tick arrived while an earlier deadline had already passed
C8_Witness ==
    /\ last.kind = "tick"
    /\ ~last.market_ready
    /\ ~connector_ready
    /\ current_timestamp > 1
    /\ create_timestamp < current_timestamp

InBand ==
    /\ fn.op = "create_base_proposal"
    /\ ~IsNaN(fn.base_balance)
    /\ fn.base_balance + fn.quote_balance > 0
    /\ 100 * fn.base_balance >=
         (fn.base_percentage - fn.rebalance_percentage) * (fn.base_balance + fn.quote_balance)
    /\ 100 * fn.base_balance <=
         (fn.base_percentage + fn.rebalance_percentage) * (fn.base_balance + fn.quote_balance)

\* C9: with a positive total value and the base percentage inside the closed
\* tolerance band, create_base_proposal returns a proposal with no buy leg and
\* no sell leg, whatever the best bid and ask.
C9_BalancedIsEmpty ==
    InBand => /\ ~fn.raised
              /\ ~fn.proposal.null
              /\ fn.proposal.buys = <<>>
              /\ fn.proposal.sells = <<>>

\* the base percentage sits exactly on the lower edge, with both prices defined
C9_Witness ==
    /\ InBand
    /\ 100 * fn.base_balance =
         (fn.base_percentage - fn.rebalance_percentage) * (fn.base_balance + fn.quote_balance)
    /\ ~IsNaN(fn.bid)
    /\ ~IsNaN(fn.ask)

BelowBand ==
    /\ fn.op = "create_base_proposal"
    /\ ~IsNaN(fn.base_balance)
    /\ ~IsNaN(fn.bid)
    /\ fn.base_balance + fn.quote_balance > 0
    /\ 100 * fn.base_balance <
         (fn.base_percentage - fn.rebalance_percentage) * (fn.base_balance + fn.quote_balance)

\* C10: with the base percentage strictly below the band and best bid
\* defined, there is no sell leg, every buy leg is priced at best bid and
\* sized quote_balance * tolerance / 100 / best bid to the nearest hundredth,
\* and a buy leg is there exactly when that size is positive.
C10_BuyLegs ==
    BelowBand =>
        /\ ~fn.raised
        /\ fn.proposal.sells = <<>>
        /\ \A i \in DOMAIN fn.proposal.buys :
              LET leg == fn.proposal.buys[i]
                  off == leg.size * fn.bid * AmountsPerUnit
                           - fn.quote_balance * fn.rebalance_percentage
              IN  /\ leg.price = fn.bid
                  /\ leg.size > 0
                  /\ 2 * off <= fn.bid * AmountsPerUnit
                  /\ 2 * off >= 0 - fn.bid * AmountsPerUnit
        /\ (fn.proposal.buys = <<>>) <=>
              (2 * fn.quote_balance * fn.rebalance_percentage < fn.bid * AmountsPerUnit)

\* base 0, quote 1000, target 50, tolerance 1, best bid 100: one leg of 0.10
C10_Witness ==
    /\ BelowBand
    /\ fn.base_balance = 0
    /\ fn.quote_balance = 1000 * AmountsPerUnit
    /\ fn.base_percentage = 50
    /\ fn.rebalance_percentage = 1
    /\ fn.bid = 100
    /\ fn.proposal.buys = <<[price |-> 100, size |-> 10]>>

AboveBand ==
    /\ fn.op = "create_base_proposal"
    /\ ~IsNaN(fn.base_balance)
    /\ ~IsNaN(fn.ask)
    /\ fn.base_balance + fn.quote_balance > 0
    /\ 100 * fn.base_balance >
         (fn.base_percentage + fn.rebalance_percentage) * (fn.base_balance + fn.quote_balance)

\* C11: where the buy branch is not taken, best ask is defined and the base
\* percentage is strictly above the band, there is no buy leg, every sell leg
\* is priced at best ask and sized base_balance * tolerance / 100 to the
\* nearest hundredth, and a sell leg is there exactly when that size is
\* positive.
C11_SellLegs ==
    (AboveBand /\ ~(BelowBand /\ ~IsNaN(fn.bid))) =>
        /\ ~fn.raised
        /\ fn.proposal.buys = <<>>
        /\ \A i \in DOMAIN fn.proposal.sells :
              LET leg == fn.proposal.sells[i]
                  off == leg.size * AmountsPerUnit
                           - fn.base_balance * fn.rebalance_percentage
              IN  /\ leg.price = fn.ask
                  /\ leg.size > 0
                  /\ 2 * off <= AmountsPerUnit
                  /\ 2 * off >= 0 - AmountsPerUnit
        /\ (fn.proposal.sells = <<>>) <=>
              (2 * fn.base_balance * fn.rebalance_percentage < AmountsPerUnit)

\* 0.75 units of base value, no quote, tolerance 1, best ask 101: 0.0075
\* formats as 0.01, one sell leg of 0.01
C11_Witness ==
    /\ AboveBand
    /\ fn.base_balance * 4 = 3 * AmountsPerUnit
    /\ fn.quote_balance = 0
    /\ fn.rebalance_percentage = 1
    /\ fn.ask = 101
    /\ fn.proposal.sells = <<[price |-> 101, size |-> 1]>>

\* C12: when the total value is 0 the construction of the proposal treats
\* the base percentage as 0 and returns, without raising, a proposal that
\* has no leg.
C12_ZeroTotalIsEmpty ==
    (/\ fn.op = "create_base_proposal"
     /\ ~IsNaN(fn.base_balance)
     /\ fn.base_balance + fn.quote_balance = 0) =>
        /\ ~fn.raised
        /\ fn.proposal.buys = <<>>
        /\ fn.proposal.sells = <<>>

BandBreached ==
    \/ fn.price_ceiling > 0 /\ ~IsNaN(fn.price) /\ fn.price >= fn.price_ceiling
    \/ fn.price_floor > 0 /\ ~IsNaN(fn.price) /\ fn.price <= fn.price_floor

\* C13: apply_price_band returns a proposal with both lists empty when the
\* reference price is at or above a positive ceiling or at or below a
\* positive floor, and returns the proposal unchanged in every other case.
C13_PriceBand ==
    fn.op = "apply_price_band" =>
        /\ ~fn.raised
        /\ IF BandBreached
           THEN fn.result.buys = <<>> /\ fn.result.sells = <<>>
           ELSE fn.result = fn.proposal

\* C14: applying the price band to its own result changes nothing: the
\* second application ends as the first did, with the same proposal.
C14_BandIdempotent ==
    fn.op = "apply_price_band" =>
        /\ fn.raised_again = fn.raised
        /\ fn.result_again = fn.result

\* a breached band has emptied a proposal that had a leg
C14_Witness ==
    /\ fn.op = "apply_price_band"
    /\ ~fn.raised
    /\ BandBreached
    /\ Len(fn.proposal.buys) = 2
    /\ fn.result.buys = <<>>
    /\ fn.result_again = fn.result

\* C15: a buy completion of a tracked order adds exactly 1 to
\* filled_buys_balance, sets last_own_trade_price to that order's price and
\* leaves filled_sells_balance alone; a sell completion does the same with
\* the counters exchanged; no step ever decreases either counter.
C15_CompletionCounters ==
    [][/\ filled_buys_balance' >= filled_buys_balance
       /\ filled_sells_balance' >= filled_sells_balance
       /\ (last'.kind = "complete_buy" /\ last'.known) =>
             /\ filled_buys_balance' = filled_buys_balance + 1
             /\ filled_sells_balance' = filled_sells_balance
             /\ \E o \in tracked : /\ o.id = last'.order_id
                                  /\ o.is_buy
                                  /\ last_own_trade_price' = o.price
       /\ (last'.kind = "complete_sell" /\ last'.known) =>
             /\ filled_sells_balance' = filled_sells_balance + 1
             /\ filled_buys_balance' = filled_buys_balance
             /\ \E o \in tracked : /\ o.id = last'.order_id
                                  /\ ~o.is_buy
                                  /\ last_own_trade_price' = o.price]_vars

\* a sell order at 101 has completed after a buy order had: one of each
C15_Witness ==
    /\ last.kind = "complete_sell"
    /\ last.known
    /\ filled_buys_balance = 1
    /\ filled_sells_balance = 1
    /\ last_own_trade_price = 101

\* C16: handling a fill, of a tracked order or not, changes neither timer,
\* neither counter and not last_own_trade_price, submits no order and
\* requests no cancel.
C16_FillIsInert ==
    [][last'.kind = "fill" =>
         UNCHANGED <<create_timestamp, cancel_timestamp, filled_buys_balance,
                     filled_sells_balance, last_own_trade_price, tracked,
                     in_flight_cancels, next_id>>]_vars

\* a fill of a tracked order has been handled while the timers were armed
C16_Witness ==
    /\ last.kind = "fill"
    /\ last.known
    /\ tracked # {}
    /\ create_timestamp > current_timestamp

\* C17: a completion whose order id is not tracked changes nothing: both
\* timers, both counters and last_own_trade_price stay as they were, so a
\* duplicate completion neither pushes the cooldown nor counts again.
C17_UnknownCompletionIgnored ==
    [][(last'.kind \in {"complete_buy", "complete_sell"} /\ ~last'.known) =>
         UNCHANGED <<create_timestamp, cancel_timestamp, filled_buys_balance,
                     filled_sells_balance, last_own_trade_price, tracked,
                     in_flight_cancels, next_id>>]_vars

\* the completion of the only order ever submitted arrives a second time,
\* on a later tick than the first
C17_Witness ==
    /\ last.kind \in {"complete_buy", "complete_sell"}
    /\ ~last.known
    /\ last.order_id = 1
    /\ next_id = 1
    /\ filled_buys_balance + filled_sells_balance = 1
    /\ current_timestamp > fill_ts

\* C18: a proposal made by create_base_proposal has at most one leg in
\* total: one buy leg or one sell leg or none, never a leg on each side.
C18_OneLeg ==
    fn.op = "create_base_proposal" =>
        /\ Len(fn.proposal.buys) + Len(fn.proposal.sells) <= 1
        /\ fn.proposal.buys = <<>> \/ fn.proposal.sells = <<>>

\* both prices are defined and the proposal is a single buy leg
C18_Witness ==
    /\ fn.op = "create_base_proposal"
    /\ ~IsNaN(fn.bid)
    /\ ~IsNaN(fn.ask)
    /\ Len(fn.proposal.buys) = 1
    /\ fn.proposal.sells = <<>>
    /\ fn.rebalance_percentage = 10

\* C19: an undefined price is never an error: when best bid or best ask is
\* NaN the proposal of the tick is built without raising, with no buy leg
\* if best bid is NaN and no sell leg if best ask is NaN.
C19_UndefinedPriceNoError ==
    (fn.op = "build_proposal" /\ (IsNaN(fn.book.bid) \/ IsNaN(fn.book.ask))) =>
        /\ ~fn.raised
        /\ IsNaN(fn.book.bid) => fn.proposal.buys = <<>>
        /\ IsNaN(fn.book.ask) => fn.proposal.sells = <<>>

\* C20 as stated: after the set_timers of a submitting tick the cancel
\* deadline is min(c, create_timestamp'), c being the previous cancel
\* deadline if it was not 0 and create_timestamp' if it was.
C20_CancelKeepsSetValue ==
    [][(IsTickStep /\ last'.submitted # {}) =>
         LET c == IF cancel_timestamp # 0 THEN cancel_timestamp
                  ELSE create_timestamp'
         IN  cancel_timestamp' = IF c < create_timestamp' THEN c
                                 ELSE create_timestamp']_vars

\* C20, amended: after the set_timers of a submitting tick at time t, a
\* previous cancel deadline that is not ahead of t (0 or already passed) is
\* replaced by min(create_timestamp', t + order_refresh_time), and one that
\* is ahead of t is kept; at a submission the deadline is never ahead of t,
\* so the cancel deadline ends equal to create_timestamp'.
C20_SetTimers ==
    [][(IsTickStep /\ last'.submitted # {}) =>
         LET t == current_timestamp'
             next_cycle == t + config.order_refresh_time
         IN  /\ cancel_timestamp' =
                  IF cancel_timestamp <= t
                  THEN (IF create_timestamp' < next_cycle THEN create_timestamp'
                        ELSE next_cycle)
                  ELSE cancel_timestamp
             /\ cancel_timestamp' = create_timestamp']_vars

\* the second submission of a run: the cancel deadline the first one had
\* set has been replaced by the new create deadline
C20_Witness ==
    /\ last.kind = "tick"
    /\ last.submitted # {}
    /\ next_id = 2
    /\ cancel_timestamp = current_timestamp + config.order_refresh_time
    /\ cancel_timestamp = create_timestamp

\* C21: set_timers called at time t never decreases the create deadline: a
\* deadline that is not ahead of t becomes exactly t + order_refresh_time,
\* and a deadline ahead of t is left as it is.
C21_CreateNeverDecreases ==
    fn.op = "set_timers" =>
        /\ fn.new_create >= fn.create
        /\ fn.create <= fn.now => fn.new_create = fn.now + fn.order_refresh_time
        /\ fn.create > fn.now => fn.new_create = fn.create

\* the create deadline was ahead of t by more than a refresh period, and has
\* been kept
C21_Witness ==
    /\ fn.op = "set_timers"
    /\ fn.create > fn.now + fn.order_refresh_time
    /\ fn.new_create = fn.create

\* C22: the max-age cancellation of a tick runs before its gate, which sees
\* the requests just issued: with should_wait_order_cancel_confirmation set,
\* a tick in which the monitor has requested a cancel finds the gate closed
\* and submits no order.
C22_MonitorBeforeGate ==
    (/\ last.kind = "tick"
     /\ config.should_wait_order_cancel_confirmation
     /\ last.cancelled # {})
        => (~last.gate /\ last.submitted = {})

\* only the cancel requests of this very tick held the submission back: the
\* orders they are for were potential hanging orders, which the gate does
\* not count, and no older cancel was in flight
C22_Witness ==
    /\ last.kind = "tick"
    /\ config.should_wait_order_cancel_confirmation
    /\ last.cancelled # {}
    /\ in_flight_cancels = last.cancelled
    /\ last.cancelled \subseteq potential_ids
    /\ \A o \in tracked : o.id \in in_flight_cancels \cup hanging_ids \cup potential_ids
    /\ create_timestamp < current_timestamp
    /\ Len(last.proposal.buys) + Len(last.proposal.sells) > 0
    /\ ~last.gate

\* C23: at every tick with the connector ready, whatever the state of the
\* creation gate, each active non-hanging order that is older than
\* max_order_age has a cancel request in flight when the tick ends.
C23_NoStaleOrderLeft ==
    [][(IsTickStep /\ last'.ready) =>
        \A o \in tracked :
            (/\ o.id \notin in_flight_cancels
             /\ o.id \notin hanging_ids
             /\ current_timestamp' - o.created > config.max_order_age)
                => o.id \in in_flight_cancels']_vars

\* the tracked orders (submitted, neither completed nor cancel-confirmed)
\* that are neither hanging nor potential hanging orders
LiveNonExempt == {o \in tracked : o.id \notin hanging_ids \cup potential_ids}

\* C24: with should_wait_order_cancel_confirmation set, at most one order
\* that is neither hanging nor potentially hanging is live at any time, and
\* a tick that submits leaves no such order live besides the one it has
\* submitted.
C24_NoDoubleSubmission ==
    config.should_wait_order_cancel_confirmation =>
        /\ Cardinality(LiveNonExempt) <= 1
        /\ (last.kind = "tick" /\ last.submitted # {}) =>
              \A o \in LiveNonExempt : o.id \in last.submitted

\* a second order has been submitted while the first, a potential hanging
\* order, is still live: one live order is not exempt
C24_Witness ==
    /\ config.should_wait_order_cancel_confirmation
    /\ last.kind = "tick"
    /\ last.submitted # {}
    /\ Cardinality(tracked) = 2
    /\ Cardinality(LiveNonExempt) = 1

\* C25: a tick that submits no order, for whatever reason, leaves both
\* timers, both counters and last_own_trade_price as they were.
C25_TimersArmedBySubmission ==
    [][(IsTickStep /\ SubmittedInStep = {}) =>
         UNCHANGED <<create_timestamp, cancel_timestamp, filled_buys_balance,
                     filled_sells_balance, last_own_trade_price>>]_vars

\* a balanced portfolio at the second tick or later: the gate is open, the
\* proposal has no leg, nothing is submitted and the timers are still unarmed
C25_Witness ==
    /\ last.kind = "tick"
    /\ last.gate
    /\ last.submitted = {}
    /\ ~last.proposal.null
    /\ last.proposal.buys = <<>>
    /\ last.proposal.sells = <<>>
    /\ current_timestamp >= 2
    /\ create_timestamp = 0
    /\ cancel_timestamp = 0

\* the time of the tick by which the gate must have opened: the clock has
\* moved on, the create deadline has passed, and every active order has
\* grown older than max_order_age and had its cancel confirmed
ProgressDeadline ==
    LET wait == IF config.should_wait_order_cancel_confirmation THEN 1 ELSE 0
        times == {current_timestamp + 1, create_timestamp + 1}
                 \cup {o.created + config.max_order_age + 1 + wait :
                          o \in active_orders(tracked, in_flight_cancels)}
    IN  CHOOSE m \in times : \A x \in times : x <= m

\* C26: under the conditions of progress an order is eventually submitted:
\* from every state whose deadline lies within the clock's range, with n
\* orders submitted so far, a state with more than n is reached.
C26_Progress ==
    \A n \in 0..(MaxOrders - 1) :
        (next_id = n /\ ProgressDeadline <= MaxTime) ~> (next_id > n)

\* a second order has been submitted, after the first grew stale, was
\* cancelled and the confirmation of the cancel was waited for
C26_Witness ==
    /\ config.should_wait_order_cancel_confirmation
    /\ last.kind = "tick"
    /\ last.submitted # {}
    /\ next_id = 2
    /\ tracked = {o \in tracked : o.id \in last.submitted}

====
